---- MODULE Spec2Model ----
(***************************************************************************)
(* TextPreprocessor (src/TextPreprocessor.py): the pipeline registry       *)
(* (add_to_pipeline, remove_from_pipeline, view_pipeline, clear_pipeline)  *)
(* and the execution engine (execute_pipeline) over the stages             *)
(* make_lowercase, make_uppercase, remove_numbers and stem_words.          *)
(***************************************************************************)
EXTENDS Integers, Sequences, FiniteSets

\* ------------------------------------------------------------------ bounds
\* longest list of stage references passed to add/remove in one call
MaxBatch == 2
\* longest enumerated input string (the two scenario strings are added)
MaxLen == 3
\* longest enumerated token sequence
MaxTokens == 1

\* ------------------------------------------------------- stage references
\* What a caller can pass as a stage reference:
\*   bound methods of this TextPreprocessor decorated with @pipeline_method,
\*   the same method bound to another TextPreprocessor instance,
\*   a bound method without the decorator (view_pipeline),
\*   a plain function (no __func__ attribute).
SelfLower == "self.make_lowercase"
SelfUpper == "self.make_uppercase"
SelfNumbers == "self.remove_numbers"
SelfStem == "self.stem_words"
OtherLower == "other.make_lowercase"
SelfView == "self.view_pipeline"
Helper == "helper"

Refs == {SelfLower, SelfUpper, SelfNumbers, SelfStem, OtherLower, SelfView, Helper}

\* method.__name__
NameOf(m) ==
    CASE m = SelfLower -> "make_lowercase"
      [] m = OtherLower -> "make_lowercase"
      [] m = SelfUpper -> "make_uppercase"
      [] m = SelfNumbers -> "remove_numbers"
      [] m = SelfStem -> "stem_words"
      [] m = SelfView -> "view_pipeline"
      [] OTHER -> "helper"

\* whether method.__func__ exists: true of bound methods only
HasFunc(m) == m # Helper

\* pipeline_method sets func.is_pipeline_method = True on the decorated methods
pipeline_method == {SelfLower, OtherLower, SelfUpper, SelfNumbers, SelfStem}

\* getattr(method.__func__, 'is_pipeline_method', False)
IsPipelineMethod(m) == m \in pipeline_method

\* `method in self.pipeline`: bound methods are equal when they have the same
\* __self__ and the same __func__
InList(m, pl) == \E i \in 1..Len(pl) : pl[i] = m

\* a log record: level, message kind, the name it carries
Report(level, msg, name) == [level |-> level, msg |-> msg, name |-> name]

\* ----------------------------------------------------------------- values
\* A pipeline value: a str (sequence of characters), a list of str, or None.
StrVal(s) == [t |-> "str", v |-> s]
ListVal(l) == [t |-> "list", v |-> l]
None == [t |-> "none", v |-> <<>>]
\* no value: the call did not return
NoValue == [t |-> "unset", v |-> <<>>]

UpperChars == <<"A","B","C","D","E","F","G","H","I","J","K","L","M",
                "N","O","P","Q","R","S","T","U","V","W","X","Y","Z">>
LowerChars == <<"a","b","c","d","e","f","g","h","i","j","k","l","m",
                "n","o","p","q","r","s","t","u","v","w","x","y","z">>
Digits == {"0","1","2","3","4","5","6","7","8","9"}

\* str.lower() on one character
LowerChar(c) ==
    IF \E i \in DOMAIN UpperChars : UpperChars[i] = c
    THEN LowerChars[CHOOSE i \in DOMAIN UpperChars : UpperChars[i] = c]
    ELSE c

\* str.upper() on one character
UpperChar(c) ==
    IF \E i \in DOMAIN LowerChars : LowerChars[i] = c
    THEN UpperChars[CHOOSE i \in DOMAIN LowerChars : LowerChars[i] = c]
    ELSE c

StrLower(s) == [i \in DOMAIN s |-> LowerChar(s[i])]
StrUpper(s) == [i \in DOMAIN s |-> UpperChar(s[i])]

\* the rest of s after its leading run of digits (the greedy match of \d+)
RECURSIVE SkipDigits(_)
SkipDigits(s) ==
    IF s # <<>> /\ Head(s) \in Digits THEN SkipDigits(Tail(s)) ELSE s

\* variant of ReSubDigits with count=1: only the first run of digits is dropped
RECURSIVE ReSubFirstRun(_)
ReSubFirstRun(s) ==
    IF s = <<>> THEN <<>>
    ELSE IF Head(s) \in Digits THEN SkipDigits(Tail(s))
    ELSE <<Head(s)>> \o ReSubFirstRun(Tail(s))

\* re.sub('\d+', '', s): scan left to right, drop every maximal run of digits
RECURSIVE ReSubDigits(_)
ReSubDigits(s) ==
    IF s = <<>> THEN <<>>
    ELSE IF Head(s) \in Digits THEN ReSubDigits(SkipDigits(Tail(s)))
    ELSE <<Head(s)>> \o ReSubDigits(Tail(s))

\* ----------------------------------------------------------------- stages
\* The outcome of one stage call: the value returned, the exception that
\* escaped ("none" when the stage returned), the reports it logged.
Returned(val, lg) == [val |-> val, exc |-> "none", log |-> lg]
Raised(e) == [val |-> NoValue, exc |-> e, log |-> <<>>]

make_lowercase(input_text) ==
    IF input_text.t = "str"
    THEN Returned(StrVal(StrLower(input_text.v)), <<>>)
    ELSE \* list and None have no .lower: AttributeError is caught
         Returned(StrVal(<<>>), <<Report("error", "invalid_input", "to_lower")>>)

make_uppercase(input_text) ==
    IF input_text.t = "str"
    THEN Returned(StrVal(StrUpper(input_text.v)), <<>>)
    ELSE \* the except branch logs and falls off the end: returns None
         Returned(None, <<Report("error", "invalid_input", "to_upper")>>)

remove_numbers(input_text) ==
    IF input_text.t = "str"
    THEN Returned(StrVal(ReSubDigits(input_text.v)), <<>>)
    ELSE \* re.sub on a list or None raises TypeError, which is not caught
         Raised("TypeError")

\* `if stemmer is None` reads the local `stemmer` before it is assigned
stem_words(input_text_or_list) == Raised("UnboundLocalError")

\* method(text) for a stage reference held in the pipeline
CallStage(m, text) ==
    CASE m = SelfLower -> make_lowercase(text)
      [] m = OtherLower -> make_lowercase(text)
      [] m = SelfUpper -> make_uppercase(text)
      [] m = SelfNumbers -> remove_numbers(text)
      [] OTHER -> stem_words(text)

\* --------------------------------------------------------------- registry
\* The `methods` argument of add_to_pipeline / remove_from_pipeline: one stage
\* reference, a list of them, or the list object self.pipeline itself.
Single(r) == [kind |-> "single", ref |-> r, items |-> <<>>]
Batch(b) == [kind |-> "list", ref |-> "", items |-> b]
Alias(pl) == [kind |-> "alias", ref |-> "", items |-> pl]
NoMethods == [kind |-> "none", ref |-> "", items |-> <<>>]

\* if not isinstance(methods, list): methods = [methods]
AsList(methods) == IF methods.kind = "single" THEN <<methods.ref>> ELSE methods.items

\* the outcome of a registry call
Outcome(pl, lg, e) == [pipeline |-> pl, log |-> lg, exc |-> e]

\* self.pipeline.remove(method): drops the first element equal to method
ListRemove(pl, m) ==
    LET i == CHOOSE k \in 1..Len(pl) : pl[k] = m /\ \A j \in 1..(k-1) : pl[j] # m
    IN  SubSeq(pl, 1, i-1) \o SubSeq(pl, i+1, Len(pl))

\* variant of AddLoop without the `method not in self.pipeline` test
RECURSIVE AddLoopNoDedup(_, _, _, _, _)
AddLoopNoDedup(pl, ms, aliased, i, lg) ==
    LET cur == IF aliased THEN pl ELSE ms IN
    IF i > Len(cur) THEN Outcome(pl, lg, "none")
    ELSE LET method == cur[i] IN
         IF ~HasFunc(method) THEN Outcome(pl, lg, "AttributeError")
         ELSE IF IsPipelineMethod(method)
         THEN AddLoopNoDedup(Append(pl, method), ms, aliased, i+1,
                             Append(lg, Report("info", "added", NameOf(method))))
         ELSE AddLoopNoDedup(pl, ms, aliased, i+1,
                             Append(lg, Report("error", "not_pipeline_method", NameOf(method))))

\* `for method in methods:` of add_to_pipeline, at position i of the list.
\* When the list is self.pipeline itself (aliased) the loop reads the live list.
RECURSIVE AddLoop(_, _, _, _, _)
AddLoop(pl, ms, aliased, i, lg) ==
    LET cur == IF aliased THEN pl ELSE ms IN
    IF i > Len(cur) THEN Outcome(pl, lg, "none")
    ELSE LET method == cur[i] IN
         IF ~HasFunc(method)
         THEN \* method.__func__ raises AttributeError; nothing catches it
              Outcome(pl, lg, "AttributeError")
         ELSE IF IsPipelineMethod(method)
         THEN IF ~InList(method, pl)
              THEN AddLoop(Append(pl, method), ms, aliased, i+1,
                           Append(lg, Report("info", "added", NameOf(method))))
              ELSE AddLoop(pl, ms, aliased, i+1,
                           Append(lg, Report("warning", "already_in", NameOf(method))))
         ELSE AddLoop(pl, ms, aliased, i+1,
                      Append(lg, Report("error", "not_pipeline_method", NameOf(method))))

add_to_pipeline(pl, methods) ==
    AddLoop(pl, AsList(methods), methods.kind = "alias", 1, <<>>)

\* variant of RemoveLoop that stops at the first stage that is not in the pipeline
RECURSIVE RemoveLoopStop(_, _, _, _, _)
RemoveLoopStop(pl, ms, aliased, i, lg) ==
    LET cur == IF aliased THEN pl ELSE ms IN
    IF i > Len(cur) THEN Outcome(pl, lg, "none")
    ELSE LET method == cur[i] IN
         IF InList(method, pl)
         THEN RemoveLoopStop(ListRemove(pl, method), ms, aliased, i+1,
                             Append(lg, Report("info", "removed", NameOf(method))))
         ELSE Outcome(pl, Append(lg, Report("error", "not_in_pipeline", NameOf(method))),
                      "none")

\* variant of RemoveLoop that reports the removal without calling list.remove
RECURSIVE RemoveLoopKeep(_, _, _, _, _)
RemoveLoopKeep(pl, ms, aliased, i, lg) ==
    LET cur == IF aliased THEN pl ELSE ms IN
    IF i > Len(cur) THEN Outcome(pl, lg, "none")
    ELSE LET method == cur[i] IN
         IF InList(method, pl)
         THEN RemoveLoopKeep(pl, ms, aliased, i+1,
                             Append(lg, Report("info", "removed", NameOf(method))))
         ELSE RemoveLoopKeep(pl, ms, aliased, i+1,
                             Append(lg, Report("error", "not_in_pipeline", NameOf(method))))

\* `for method in methods:` of remove_from_pipeline, at position i of the list
RECURSIVE RemoveLoop(_, _, _, _, _)
RemoveLoop(pl, ms, aliased, i, lg) ==
    LET cur == IF aliased THEN pl ELSE ms IN
    IF i > Len(cur) THEN Outcome(pl, lg, "none")
    ELSE LET method == cur[i] IN
         IF InList(method, pl)
         THEN RemoveLoop(ListRemove(pl, method), ms, aliased, i+1,
                         Append(lg, Report("info", "removed", NameOf(method))))
         ELSE RemoveLoop(pl, ms, aliased, i+1,
                         Append(lg, Report("error", "not_in_pipeline", NameOf(method))))

remove_from_pipeline(pl, methods) ==
    RemoveLoop(pl, AsList(methods), methods.kind = "alias", 1, <<>>)

view_pipeline(pl) ==
    IF pl # <<>>
    THEN Outcome(pl, <<Report("info", "configuration", "")>>
                     \o [i \in 1..Len(pl) |-> Report("info", "entry", NameOf(pl[i]))],
                 "none")
    ELSE Outcome(pl, <<Report("error", "empty", "")>>, "none")

\* variant of clear_pipeline that treats the empty pipeline as view_pipeline does
clear_pipeline_error(pl) ==
    IF pl # <<>>
    THEN Outcome(<<>>, <<Report("info", "all_removed", "")>>, "none")
    ELSE Outcome(pl, <<Report("error", "empty", "")>>, "none")

clear_pipeline(pl) ==
    IF pl # <<>>
    THEN Outcome(<<>>, <<Report("info", "all_removed", "")>>, "none")
    ELSE Outcome(pl, <<Report("info", "already_empty", "")>>, "none")

\* -------------------------------------------------------------- execution
\* one call made by execute_pipeline: the stage and the value handed to it
StageCall(m, x) == [stage |-> m, arg |-> x]

\* variant of ExecLoop that hands every stage the original text
\* (`result = method(text)`) and returns the last stage's value
RECURSIVE ExecLoopNoThread(_, _, _, _, _)
ExecLoopNoThread(pl, i, text, lg, cl) ==
    IF i > Len(pl)
    THEN [result |-> IF cl = <<>> THEN text
                     ELSE CallStage(cl[Len(cl)].stage, text).val,
          exc |-> "none", log |-> lg, called |-> cl]
    ELSE LET r == CallStage(pl[i], text) IN
         IF r.exc # "none"
         THEN [result |-> NoValue, exc |-> r.exc, log |-> lg \o r.log,
               called |-> Append(cl, StageCall(pl[i], text))]
         ELSE ExecLoopNoThread(pl, i+1, text, lg \o r.log,
                               Append(cl, StageCall(pl[i], text)))

\* variant of ExecLoop that returns None when there is no stage to run
RECURSIVE ExecLoopEmptyNone(_, _, _, _, _)
ExecLoopEmptyNone(pl, i, text, lg, cl) ==
    IF i > Len(pl)
    THEN [result |-> IF pl = <<>> THEN None ELSE text,
          exc |-> "none", log |-> lg, called |-> cl]
    ELSE LET r == CallStage(pl[i], text) IN
         IF r.exc # "none"
         THEN [result |-> NoValue, exc |-> r.exc, log |-> lg \o r.log,
               called |-> Append(cl, StageCall(pl[i], text))]
         ELSE ExecLoopEmptyNone(pl, i+1, r.val, lg \o r.log,
                                Append(cl, StageCall(pl[i], text)))

\* `for method in self.pipeline: text = method(text)`, at position i
RECURSIVE ExecLoop(_, _, _, _, _)
ExecLoop(pl, i, text, lg, cl) ==
    IF i > Len(pl)
    THEN [result |-> text, exc |-> "none", log |-> lg, called |-> cl]
    ELSE LET r == CallStage(pl[i], text) IN
         IF r.exc # "none"
         THEN [result |-> NoValue, exc |-> r.exc, log |-> lg \o r.log,
               called |-> Append(cl, StageCall(pl[i], text))]
         ELSE ExecLoop(pl, i+1, r.val, lg \o r.log,
                       Append(cl, StageCall(pl[i], text)))

execute_pipeline(pl, text) == ExecLoop(pl, 1, text, <<>>, <<>>)

\* ------------------------------------------------------------------ inputs
Batches == UNION {[1..n -> Refs] : n \in 0..MaxBatch}
MethodArgs(pl) ==
    {Single(r) : r \in Refs} \cup {Batch(b) : b \in Batches} \cup {Alias(pl)}

Alphabet == {"A", "b", "7", " "}
Strings == UNION {[1..n -> Alphabet] : n \in 0..MaxLen}
Agent007 == <<"A","g","e","n","t","0","0","7"," ",
              "R","e","p","o","r","t","i","n","g">>
Hello123 == <<"H","e","l","l","o","1","2","3">>
Words == {<<>>, <<"A", "7">>}
TokenLists == UNION {[1..n -> Words] : n \in 0..MaxTokens}
Inputs ==
    {StrVal(s) : s \in Strings \cup {Agent007, Hello123}}
    \cup {ListVal(l) : l \in TokenLists} \cup {None}

\* ------------------------------------------------------------------- state
VARIABLES
    pipeline,   \* self.pipeline
    phase,      \* the caller: "idle" between calls, "returned" holding a call's outcome
    op,         \* the call that returned: "add", "remove", "view", "execute", "clear"
    methods,    \* its `methods` argument (add, remove)
    input,      \* its `text` argument (execute)
    pre,        \* self.pipeline when it was called
    log,        \* the reports it logged
    raised,     \* the exception that escaped it, or "none"
    result,     \* the value it returned (execute)
    called,     \* the stage calls it made, in order (execute)
    beforeAdd   \* for a remove issued straight after an add of the same single
                \* stage: the pipeline before that add

vars == <<pipeline, phase, op, methods, input, pre, log, raised, result, called, beforeAdd>>

NoAdd == [set |-> FALSE, pl |-> <<>>]

Init ==
    /\ pipeline = <<>>
    /\ phase = "idle"
    /\ op = "none"
    /\ methods = NoMethods
    /\ input = NoValue
    /\ pre = <<>>
    /\ log = <<>>
    /\ raised = "none"
    /\ result = NoValue
    /\ called = <<>>
    /\ beforeAdd = NoAdd

\* a registry call returns: what every registry action records
RegistryReturn(name, m, r, ba) ==
    /\ pipeline' = r.pipeline
    /\ phase' = "returned"
    /\ op' = name
    /\ methods' = m
    /\ input' = NoValue
    /\ pre' = pipeline
    /\ log' = r.log
    /\ raised' = r.exc
    /\ result' = NoValue
    /\ called' = <<>>
    /\ beforeAdd' = ba

AddToPipeline(m) ==
    /\ phase = "idle"
    /\ RegistryReturn("add", m, add_to_pipeline(pipeline, m), NoAdd)

RemoveFromPipeline(m) ==
    /\ phase = "idle"
    /\ RegistryReturn("remove", m, remove_from_pipeline(pipeline, m), NoAdd)

\* add_to_pipeline(s) followed at once by remove_from_pipeline(s)
RemoveJustAdded ==
    /\ phase = "returned"
    /\ op = "add"
    /\ methods.kind = "single"
    /\ RegistryReturn("remove", methods, remove_from_pipeline(pipeline, methods),
                      [set |-> TRUE, pl |-> pre])

ViewPipeline ==
    /\ phase = "idle"
    /\ RegistryReturn("view", NoMethods, view_pipeline(pipeline), NoAdd)

ClearPipeline ==
    /\ phase = "idle"
    /\ RegistryReturn("clear", NoMethods, clear_pipeline(pipeline), NoAdd)

ExecutePipeline(x) ==
    /\ phase = "idle"
    /\ LET r == execute_pipeline(pipeline, x) IN
       /\ pipeline' = pipeline
       /\ phase' = "returned"
       /\ op' = "execute"
       /\ methods' = NoMethods
       /\ input' = x
       /\ pre' = pipeline
       /\ log' = r.log
       /\ raised' = r.exc
       /\ result' = r.result
       /\ called' = r.called
       /\ beforeAdd' = NoAdd

\* the caller is done with the outcome of the last call and is free to make
\* the next one; self.pipeline is the only state that lives on
NextCall ==
    /\ phase = "returned"
    /\ phase' = "idle"
    /\ op' = "none"
    /\ methods' = NoMethods
    /\ input' = NoValue
    /\ pre' = <<>>
    /\ log' = <<>>
    /\ raised' = "none"
    /\ result' = NoValue
    /\ called' = <<>>
    /\ beforeAdd' = NoAdd
    /\ UNCHANGED pipeline

Next ==
    \/ \E m \in MethodArgs(pipeline) : AddToPipeline(m)
    \/ \E m \in MethodArgs(pipeline) : RemoveFromPipeline(m)
    \/ RemoveJustAdded
    \/ ViewPipeline
    \/ ClearPipeline
    \/ \E x \in Inputs : ExecutePipeline(x)
    \/ NextCall

Spec == Init /\ [][Next]_vars

\* ------------------------------------------------------------- properties
Range(sq) == {sq[i] : i \in DOMAIN sq}
NamesOf(pl) == [i \in DOMAIN pl |-> NameOf(pl[i])]
NoRepeat(sq) == \A i, j \in DOMAIN sq : i # j => sq[i] # sq[j]
\* the elements of sq that are not in the set S, in their order in sq
RECURSIVE Without(_, _)
Without(sq, S) ==
    IF sq = <<>> THEN <<>>
    ELSE IF Head(sq) \in S THEN Without(Tail(sq), S)
    ELSE <<Head(sq)>> \o Without(Tail(sq), S)

\* C1, as stated: after any sequence of add, remove and clear calls, no stage
\* name appears twice in self.pipeline.
C1_NoDuplicateName == NoRepeat(NamesOf(pipeline))

\* C1, amended: after any sequence of add, remove and clear calls, no stage
\* reference (a bound method: one instance, one function) appears twice in
\* self.pipeline.
C1_NoDuplicateStage == NoRepeat(pipeline)

\* an add call met a stage that was already in a pipeline of two or more stages
C1_Witness ==
    /\ op = "add"
    /\ Len(pipeline) >= 2
    /\ \E i \in DOMAIN log : log[i].msg = "already_in"
    /\ \E i \in DOMAIN log : log[i].msg = "added"

\* C2: an add call whose batch holds a callable that is not marked
\* pipeline-eligible does not abort, does not add that callable, reports an
\* error naming it, and appends every eligible member that was absent.
C2_IneligibleSkipped ==
    op = "add" /\ methods.kind # "alias" =>
        LET ms == AsList(methods) IN
        \A i \in DOMAIN ms :
            ms[i] \notin pipeline_method =>
                /\ raised = "none"
                /\ ~InList(ms[i], pipeline)
                /\ \E k \in DOMAIN log :
                       log[k] = Report("error", "not_pipeline_method", NameOf(ms[i]))
                /\ \A j \in DOMAIN ms :
                       ms[j] \in pipeline_method => InList(ms[j], pipeline)

\* C3: a remove call whose batch holds a stage that is not in the pipeline
\* reports an error naming that stage, leaves the pipeline as it is for that
\* item, and still processes every other member: each present one is removed.
C3_RemoveAbsent ==
    op = "remove" =>
        LET ms == AsList(methods) IN
        (\E i \in DOMAIN ms : ~InList(ms[i], pre)) =>
            /\ raised = "none"
            /\ Len(log) = Len(ms)
            /\ \A i \in DOMAIN ms :
                   ~InList(ms[i], pre) =>
                       log[i] = Report("error", "not_in_pipeline", NameOf(ms[i]))
            /\ \A i \in DOMAIN ms : ~InList(ms[i], pipeline)
            /\ pipeline = Without(pre, Range(ms))

\* a batch whose first member is absent and whose second is present and removed
C3_Witness ==
    /\ op = "remove"
    /\ methods.kind = "list"
    /\ Len(methods.items) = 2
    /\ ~InList(methods.items[1], pre)
    /\ InList(methods.items[2], pre)
    /\ Len(pipeline) = Len(pre) - 1

\* C4, as stated: for every pipeline P and every stage s, add(s) followed at
\* once by remove(s) leaves the pipeline equal to P.
C4_AddThenRemove == beforeAdd.set => pipeline = beforeAdd.pl

\* C4, amended: for every pipeline P and every stage s that is not in P,
\* add(s) followed at once by remove(s) leaves the pipeline equal to P.
C4_AddThenRemoveAbsent ==
    beforeAdd.set /\ ~InList(methods.ref, beforeAdd.pl) => pipeline = beforeAdd.pl

\* an absent eligible stage was appended to a non-empty pipeline and removed
C4_Witness ==
    /\ beforeAdd.set
    /\ beforeAdd.pl # <<>>
    /\ ~InList(methods.ref, beforeAdd.pl)
    /\ pre = Append(beforeAdd.pl, methods.ref)
    /\ pipeline = beforeAdd.pl

\* C5: no exception escapes execute_pipeline, whatever the pipeline and the input.
C5_NoStageRaises == op = "execute" => raised = "none"

\* C6: when execute_pipeline is given a text or a token sequence and returns,
\* every stage was handed a text or a token sequence and so is the value
\* returned (a stage given the wrong shape falls back to an empty value).
C6_SafeFallback ==
    op = "execute" /\ input.t \in {"str", "list"} /\ raised = "none" =>
        /\ result.t \in {"str", "list"}
        /\ \A k \in DOMAIN called : called[k].arg.t \in {"str", "list"}

\* sn(...s2(s1(x))...), built outside in: the last stage applied to what the
\* stages before it make of x; an exception raised inside is passed on
RECURSIVE Compose(_, _)
Compose(pl, x) ==
    IF pl = <<>> THEN Returned(x, <<>>)
    ELSE LET inner == Compose(SubSeq(pl, 1, Len(pl) - 1), x) IN
         IF inner.exc # "none" THEN inner
         ELSE CallStage(pl[Len(pl)], inner.val)

\* the stages of ms whose add succeeded (report "added"), in the order of the reports
RECURSIVE AddedIn(_, _)
AddedIn(ms, lg) ==
    IF ms = <<>> \/ lg = <<>> THEN <<>>
    ELSE IF Head(lg).msg = "added"
         THEN <<Head(ms)>> \o AddedIn(Tail(ms), Tail(lg))
         ELSE AddedIn(Tail(ms), Tail(lg))

\* C7: the pipeline holds its stages in the order their add calls succeeded
\* (each success appends at the end), and execute_pipeline(x) calls each stage
\* once, in that order, on the previous stage's value as it is, and returns
\* the last stage's value.
C7_ExecuteInOrder ==
    /\ op = "add" => pipeline = pre \o AddedIn(AsList(methods), log)
    /\ op = "execute" =>
           /\ raised = Compose(pre, input).exc
           /\ Len(called) <= Len(pre)
           /\ \A k \in DOMAIN called :
                  /\ called[k].stage = pre[k]
                  /\ called[k].arg =
                         IF k = 1 THEN input
                         ELSE CallStage(pre[k-1], called[k-1].arg).val
           /\ raised = "none" =>
                  /\ Len(called) = Len(pre)
                  /\ result = Compose(pre, input).val

\* three stages ran and each one changed the value it was handed
C7_Witness ==
    /\ op = "execute"
    /\ raised = "none"
    /\ Len(pre) = 3
    /\ called[1].arg # called[2].arg
    /\ called[2].arg # called[3].arg
    /\ called[3].arg # result
    /\ called[1].arg # called[3].arg

\* C8: execute_pipeline on an empty pipeline returns its input unchanged and
\* calls no stage, for an input of any shape.
C8_EmptyIsIdentity ==
    op = "execute" /\ pre = <<>> =>
        /\ raised = "none"
        /\ result = input
        /\ called = <<>>

\* a non-empty token sequence went through the empty pipeline
C8_Witness ==
    /\ op = "execute"
    /\ pipeline = <<>>
    /\ input.t = "list"
    /\ input.v # <<>>
    /\ result = input

NotDigit(c) == c \notin Digits

\* C9: over upper-case letters, lower-case letters, digits and spaces the
\* pipelines [make_lowercase, remove_numbers] and [remove_numbers,
\* make_lowercase] both return the input lower-cased with every digit deleted
\* and every other character kept in place; "Agent007 Reporting" gives
\* "agent reporting" and "Hello123" gives "hello".
C9_LowercaseNoDigits ==
    (/\ op = "execute"
     /\ input.t = "str"
     /\ NamesOf(pre) \in {<<"make_lowercase", "remove_numbers">>,
                          <<"remove_numbers", "make_lowercase">>}) =>
        /\ raised = "none"
        /\ result = StrVal(SelectSeq(StrLower(input.v), NotDigit))
        /\ input.v = Agent007 =>
               result.v = <<"a","g","e","n","t"," ",
                            "r","e","p","o","r","t","i","n","g">>
        /\ input.v = Hello123 => result.v = <<"h","e","l","l","o">>

\* "Agent007 Reporting" went through [remove_numbers, make_lowercase]
C9_Witness ==
    /\ op = "execute"
    /\ pre = <<SelfNumbers, SelfLower>>
    /\ input = StrVal(Agent007)
    /\ Len(result.v) = 15

\* C10: clear_pipeline leaves the pipeline empty and raises nothing; on a
\* non-empty pipeline it logs one info report that the stages were removed, on
\* an empty pipeline it changes nothing and logs one other info report
\* (already empty).
C10_Clear ==
    op = "clear" =>
        /\ pipeline = <<>>
        /\ raised = "none"
        /\ Len(log) = 1
        /\ log[1].level = "info"
        /\ log[1].msg = (IF pre # <<>> THEN "all_removed" ELSE "already_empty")

\* clear_pipeline was called on an empty pipeline
C10_Witness ==
    /\ op = "clear"
    /\ pre = <<>>
    /\ pipeline = <<>>
    /\ log = <<Report("info", "already_empty", "")>>

\* C11: after a remove call, with one stage or any list of stages, every
\* stage of the batch that was in the pipeline before the call is absent, and
\* the stages that are not in the batch remain in their order.
C11_RemoveFrame ==
    op = "remove" =>
        LET ms == AsList(methods) IN
        /\ \A i \in DOMAIN ms : InList(ms[i], pre) => ~InList(ms[i], pipeline)
        /\ pipeline = Without(pre, Range(ms))

====
